---- MODULE Spec2Model ----
(***************************************************************************)
(* A model of app.py, the Streamlit script of the AI data analyst app.     *)
(* One run of the script ("pass") goes top to bottom: the uploaded CSV     *)
(* files are loaded into an in-memory SQLite store and described in the    *)
(* schema text, a question is read, ask_ai turns it into one SQL statement *)
(* through the external model, run_sql executes it, and the chart, the     *)
(* Excel export and the AI insight (explain) are produced from df.         *)
(*                                                                         *)
(* Text is a sequence of one-character strings, so that replace, strip,    *)
(* split, lower and join are computed the way Python computes them.        *)
(***************************************************************************)
EXTENDS Integers, Sequences, FiniteSets

VARIABLES
    pc,         \* the position of the pass in the script
    files,      \* the uploaded batch (line 20)
    k,          \* the index of the file the load loop is at (line 31)
    conn,       \* the SQLite store: table name -> stored frame (line 27)
    schema,     \* the schema text (line 29)
    df,         \* the script's variable df (lines 32, 116)
    question,   \* the text input (line 110)
    run,        \* the Run button (line 112)
    raw,        \* what call_ai returned to ask_ai (line 83)
    sql,        \* the statement ask_ai returned (line 113)
    errors,     \* the messages shown with st.error (line 48)
    chart,      \* what the visualization section rendered (lines 126-152)
    excel,      \* the frame written to the Excel buffer (line 156)
    summary,    \* the text explain returned (line 168)
    calls,      \* how many times the external model was called (line 53)
    exc,        \* the exception that ended the pass, "none" if none
    rejected,   \* history: the store rejected the statement run_sql was given
    narrated,   \* history: the frames explain was called with in this pass
    log         \* history: the functions called in this pass, in order, and
                \* "call_ai raised" where the external call failed

vars == <<pc, files, k, conn, schema, df, question, run, raw, sql, errors,
          chart, excel, summary, calls, exc, rejected, narrated, log>>

----------------------------------------------------------------------------
(* Bounds *)

\* The largest number of files in one uploaded batch.
MaxFiles == 3

\* The longest free part of a raw model response in SpecText.
MaxBody == 3

----------------------------------------------------------------------------
(* Python str operations, on sequences of characters *)

Whitespace == {" ", "\n", "\t"}

UpperCase == <<"A","B","C","D","E","F","G","H","I","J","K","L","M",
               "N","O","P","Q","R","S","T","U","V","W","X","Y","Z">>
LowerCase == <<"a","b","c","d","e","f","g","h","i","j","k","l","m",
               "n","o","p","q","r","s","t","u","v","w","x","y","z">>

\* str.lower() of one character.
LowerChar(c) ==
    IF \E i \in 1..26 : UpperCase[i] = c
    THEN LowerCase[CHOOSE i \in 1..26 : UpperCase[i] = c]
    ELSE c

\* str.lower()
Lower(s) == [i \in 1..Len(s) |-> LowerChar(s[i])]

\* str.replace(old, new): the non-overlapping occurrences, left to right.
RECURSIVE Replace(_, _, _)
Replace(s, old, new) ==
    IF Len(s) < Len(old) THEN s
    ELSE IF SubSeq(s, 1, Len(old)) = old
         THEN new \o Replace(SubSeq(s, Len(old) + 1, Len(s)), old, new)
         ELSE <<Head(s)>> \o Replace(Tail(s), old, new)

\* str.lstrip()
RECURSIVE LStrip(_)
LStrip(s) ==
    IF s # <<>> /\ Head(s) \in Whitespace THEN LStrip(Tail(s)) ELSE s

\* str.rstrip()
RECURSIVE RStrip(_)
RStrip(s) ==
    IF s # <<>> /\ s[Len(s)] \in Whitespace
    THEN RStrip(SubSeq(s, 1, Len(s) - 1)) ELSE s

\* str.strip()
Strip(s) == RStrip(LStrip(s))

\* str.split(sep)[0] for a one-character sep: the part before the first sep,
\* the whole text when there is none.
RECURSIVE SplitFirst(_, _)
SplitFirst(s, sep) ==
    IF s = <<>> \/ Head(s) = sep THEN <<>>
    ELSE <<Head(s)>> \o SplitFirst(Tail(s), sep)

\* sep.join(parts)
RECURSIVE Join(_, _)
Join(parts, sep) ==
    IF parts = <<>> THEN <<>>
    ELSE IF Len(parts) = 1 THEN parts[1]
    ELSE parts[1] \o sep \o Join(Tail(parts), sep)

----------------------------------------------------------------------------
(* Text constants of the script *)

DotCsv   == <<".","c","s","v">>
\* The backquote character (a string literal of the module cannot hold it).
Tick     == "BACKQUOTE"
FenceSql == <<Tick, Tick, Tick, "s", "q", "l">>
Fence    == <<Tick, Tick, Tick>>
Semi     == <<";">>
CommaSp  == <<",", " ">>
SqlErrorPrefix == <<"S","Q","L"," ","E","r","r","o","r",":"," ">>
NoDataText == <<"N","o"," ","d","a","t","a"," ","w","a","s"," ",
                "r","e","t","u","r","n","e","d"," ","f","o","r"," ",
                "t","h","i","s"," ","q","u","e","s","t","i","o","n",".">>

----------------------------------------------------------------------------
(* Frames *)

\* pd.DataFrame(): no column, no row.
EmptyFrame == [columns |-> <<>>, kinds |-> <<>>, rows |-> <<>>]

\* DataFrame.empty: some axis has length 0.
IsEmpty(f) == Len(f.columns) = 0 \/ Len(f.rows) = 0

----------------------------------------------------------------------------
(* The file load loop, lines 31-39 *)

\* Line 34: file.name.replace(".csv","").lower().replace(" ","_")
TableName(name) ==
    Replace(Lower(Replace(name, DotCsv, <<>>)), <<" ">>, <<"_">>)

\* Line 35 with the column names lower-cased as the table name is.
NormalizeColumns_Lower(header) ==
    [i \in 1..Len(header) |->
        Replace(Lower(Strip(header[i])), <<" ">>, <<"_">>)]

\* Line 35: [c.strip().replace(" ", "_") for c in df.columns]
NormalizeColumns(header) ==
    [i \in 1..Len(header) |-> Replace(Strip(header[i]), <<" ">>, <<"_">>)]

\* Lines 32, 35: the frame read from a readable file, its columns renamed.
ReadFrame(file) ==
    [columns |-> NormalizeColumns(file.header),
     kinds   |-> file.kinds,
     rows    |-> file.rows]

\* to_sql with if_exists="append": the rows are added to the table's.
ToSql_Append(store, table, frame) ==
    [t \in (DOMAIN store) \cup {table} |->
        IF t # table THEN store[t]
        ELSE IF t \in DOMAIN store
             THEN [store[t] EXCEPT !.rows = store[t].rows \o frame.rows]
             ELSE frame]

\* Line 37: df.to_sql(table, conn, index=False, if_exists="replace")
ToSql(store, table, frame) ==
    [t \in (DOMAIN store) \cup {table} |->
        IF t = table THEN frame ELSE store[t]]

\* Line 39: f"{table}({', '.join(df.columns)})\n"
SchemaLine(table, columns) ==
    table \o <<"(">> \o Join(columns, CommaSp) \o <<")">> \o <<"\n">>

----------------------------------------------------------------------------
(* The external model and ask_ai, lines 52-85 *)

\* Line 62: response.choices[0].message.content.strip()
call_ai(response) == Strip(response)

\* ask_ai without the split of line 85: the whole cleaned text, terminated.
ask_ai_NoSplit(response) ==
    Strip(Replace(Replace(call_ai(response), FenceSql, <<>>), Fence, <<>>))
        \o Semi

\* Lines 83-85, on the text the external model answered the prompt with.
ask_ai(response) ==
    LET r0 == call_ai(response)
        r1 == Strip(Replace(Replace(r0, FenceSql, <<>>), Fence, <<>>))
    IN  SplitFirst(r1, ";") \o Semi

----------------------------------------------------------------------------
(* The store and run_sql, lines 44-49 *)

SelectAllFrom == <<"S","E","L","E","C","T"," ","*"," ","F","R","O","M"," ">>
SelectOne     == <<"S","E","L","E","C","T"," ","1">>
NoSuchTable   == <<"n","o"," ","s","u","c","h"," ","t","a","b","l","e",":"," ">>
SyntaxError   == <<"s","y","n","t","a","x"," ","e","r","r","o","r">>

\* SELECT 1: one row, one numeric column named 1.
OneFrame == [columns |-> <<<<"1">>>>, kinds |-> <<"number">>, rows |-> <<0>>]

\* Whether text s starts with text p.
StartsWith(s, p) == Len(s) >= Len(p) /\ SubSeq(s, 1, Len(p)) = p

\* Line 46: pd.read_sql_query(query, conn), for the statements of the model:
\* SELECT * FROM <table> and SELECT 1 are answered, a table the store does not
\* hold and any other text are rejected with the store's message.
read_sql_query(query, store) ==
    LET stmt == Strip(SplitFirst(query, ";"))
        from == SubSeq(stmt, Len(SelectAllFrom) + 1, Len(stmt))
    IN  IF stmt = SelectOne
        THEN [ok |-> TRUE, frame |-> OneFrame, msg |-> <<>>]
        ELSE IF StartsWith(stmt, SelectAllFrom)
        THEN IF from \in DOMAIN store
             THEN [ok |-> TRUE, frame |-> store[from], msg |-> <<>>]
             ELSE [ok |-> FALSE, frame |-> EmptyFrame,
                   msg |-> NoSuchTable \o from]
        ELSE [ok |-> FALSE, frame |-> EmptyFrame, msg |-> SyntaxError]

\* run_sql without the try/except of lines 45-49: the store's exception
\* leaves the function.
run_sql_NoExcept(query, store) ==
    LET r == read_sql_query(query, store)
    IN  [frame |-> r.frame, shown |-> <<>>, raised |-> ~r.ok]

\* Lines 44-49: the frame returned, the messages shown with st.error, and
\* whether an exception leaves the function.
run_sql(query, store) ==
    LET r == read_sql_query(query, store)
    IN  IF r.ok
        THEN [frame |-> r.frame, shown |-> <<>>, raised |-> FALSE]
        ELSE [frame |-> EmptyFrame,
              shown |-> <<SqlErrorPrefix \o r.msg>>,
              raised |-> FALSE]

----------------------------------------------------------------------------
(* explain, lines 88-106 *)

\* explain without the early return of lines 89-90.
explain_NoShortCut(frame, response) ==
    [text |-> call_ai(response), called |-> 1]

\* The text returned and the number of calls made to the external model,
\* when the model would answer the prompt with response.
explain(frame, response) ==
    IF IsEmpty(frame)
    THEN [text |-> NoDataText, called |-> 0]
    ELSE [text |-> call_ai(response), called |-> 1]

----------------------------------------------------------------------------
(* The visualization section, lines 123-152 *)

HasKind(frame, kind) == \E i \in 1..Len(frame.kinds) : frame.kinds[i] = kind

\* Line 126: a chart needs one numeric and one non-numeric column.
Visualization(frame) ==
    IF HasKind(frame, "number") /\ HasKind(frame, "object")
    THEN "chart" ELSE "info"

----------------------------------------------------------------------------
(* The inputs of a pass *)

\* An uploaded file: its name, whether pd.read_csv can read it, its header
\* row as written, the dtype pandas infers for each column, and its rows.
SalesCsv ==
    [name |-> <<"s","a","l","e","s",".","c","s","v">>, ok |-> TRUE,
     header |-> <<<<"D","a","t","e">>, <<" ","P","r","o","d","u","c","t">>, <<" ","Q","u","a","n","t","i","t","y">>, <<" ","P","r","i","c","e">>>>,
     kinds |-> <<"object", "object", "number", "number">>,
     rows |-> <<1, 2>>]
SalesAgain ==
    [name |-> <<"S","a","l","e","s",".","c","s","v">>, ok |-> TRUE,
     header |-> <<<<"R","e","g","i","o","n">>>>,
     kinds |-> <<"object">>,
     rows |-> <<3>>]
BadCsv ==
    [name |-> <<"b","a","d",".","c","s","v">>, ok |-> FALSE,
     header |-> <<>>, kinds |-> <<>>, rows |-> <<>>]
MyDataCsv ==
    [name |-> <<"m","y"," ","d","a","t","a",".","c","s","v",".","c","s","v">>, ok |-> TRUE,
     header |-> <<<<" ","u","n","i","t"," ","p","r","i","c","e"," ">>>>,
     kinds |-> <<"number">>,
     rows |-> <<>>]
Q1Csv ==
    [name |-> <<"Q","1",".","C","S","V">>, ok |-> TRUE,
     header |-> <<<<"A","m","o","u","n","t">>>>,
     kinds |-> <<"number">>,
     rows |-> <<4>>]

FilePool == {SalesCsv, SalesAgain, BadCsv, MyDataCsv, Q1Csv}

\* The batches the uploader can hand to the script.
Batches == UNION {[1..n -> FilePool] : n \in 0..MaxFiles}

\* The text input: left empty, or a question.
Questions == {<<>>, <<"t","o","p">>}

\* Texts the external model answers a synthesis prompt with.
FencedSelect  == <<Tick,Tick,Tick,"s","q","l","\n","S","E","L","E","C","T"," ","*"," ","F","R","O","M"," ","s","a","l","e","s",";","\n",Tick,Tick,Tick>>
TwoStatements == <<"S","E","L","E","C","T"," ","1",";"," ","S","E","L","E","C","T"," ","*"," ","F","R","O","M"," ","s","a","l","e","s",";">>
UnknownTable  == <<"S","E","L","E","C","T"," ","*"," ","F","R","O","M"," ","o","r","d","e","r","s">>
BlankAnswer   == <<" "," ">>
HeaderOnly    == <<"S","E","L","E","C","T"," ","*"," ","F","R","O","M"," ","m","y","_","d","a","t","a",";">>
RawPool == {FencedSelect, TwoStatements, UnknownTable, BlankAnswer, HeaderOnly}

\* The example of the specification: ```sql SELECT 1; SELECT 2;```
ExampleRaw == <<Tick,Tick,Tick,"s","q","l"," ","S","E","L","E","C","T"," ","1",";"," ","S","E","L","E","C","T"," ","2",";",Tick,Tick,Tick>>
ExampleSql == <<"S","E","L","E","C","T"," ","1",";">>

\* The raw responses of SpecText: every text of at most MaxBody characters
\* over TextAlphabet, alone or inside code fences, and the example.
TextAlphabet == {"a", ";", " ", Tick}
Bodies == UNION {[1..n -> TextAlphabet] : n \in 0..MaxBody}
RawTexts ==
    {pre \o b \o post : pre \in {<<>>, FenceSql, Fence, FenceSql \o <<"\n">>},
                        b \in Bodies,
                        post \in {<<>>, Fence, <<"\n">> \o Fence}}
    \cup {ExampleRaw}

\* Texts the external model answers a narration prompt with.
SummaryPool == {<<" ","S","a","l","e","s"," ","g","r","e","w",".","\n">>}

----------------------------------------------------------------------------
(* The pass *)

EmptyStore == [t \in {} |-> EmptyFrame]

\* The start of a pass: nothing uploaded yet; df is not bound before the load
\* loop, and is not read before it either.
Init ==
    /\ pc = "Idle"
    /\ files = <<>>
    /\ k = 1
    /\ conn = EmptyStore
    /\ schema = <<>>
    /\ df = EmptyFrame
    /\ question = <<>>
    /\ run = FALSE
    /\ raw = <<>>
    /\ sql = <<>>
    /\ errors = <<>>
    /\ chart = "none"
    /\ excel = EmptyFrame
    /\ summary = <<>>
    /\ calls = 0
    /\ exc = "none"
    /\ rejected = FALSE
    /\ narrated = <<>>
    /\ log = <<>>

\* Lines 20-29: the uploader hands over the batch; with no file the pass
\* stops, otherwise the store is opened and the schema text starts empty.
FileUpload(batch) ==
    /\ pc = "Idle"
    /\ files' = batch
    /\ \/ /\ batch = <<>>
          /\ pc' = "Stopped"
       \/ /\ batch # <<>>
          /\ pc' = "Loading"
    /\ k' = 1
    /\ conn' = EmptyStore
    /\ schema' = <<>>
    /\ UNCHANGED <<df, question, run, raw, sql, errors, chart, excel, summary,
                   calls, exc, rejected, narrated, log>>

\* Lines 31-39, one iteration: pd.read_csv raises on a file it cannot read,
\* and nothing catches it; otherwise the frame is stored under the derived
\* name and its line is appended to the schema text.
LoadFile ==
    /\ pc = "Loading"
    /\ k <= Len(files)
    /\ \/ /\ ~files[k].ok
          /\ pc' = "Failed"
          /\ exc' = "read_csv"
          /\ UNCHANGED <<k, conn, schema, df>>
       \/ /\ files[k].ok
          /\ df' = ReadFrame(files[k])
          /\ conn' = ToSql(conn, TableName(files[k].name), df')
          /\ schema' = schema \o SchemaLine(TableName(files[k].name), df'.columns)
          /\ k' = k + 1
          /\ UNCHANGED <<pc, exc>>
    /\ UNCHANGED <<files, question, run, raw, sql, errors, chart, excel,
                   summary, calls, rejected, narrated, log>>

\* Line 41: the loop is over.
DataLoaded ==
    /\ pc = "Loading"
    /\ k > Len(files)
    /\ pc' = "SchemaReady"
    /\ UNCHANGED <<files, k, conn, schema, df, question, run, raw, sql, errors,
                   chart, excel, summary, calls, exc, rejected, narrated, log>>

\* Lines 110-112: the question and the button are read; ask_ai is entered
\* only when Run was pressed and the question is not empty.
AskQuestion(q, pressed) ==
    /\ pc = "SchemaReady"
    /\ question' = q
    /\ run' = pressed
    /\ \/ /\ pressed /\ q # <<>>
          /\ pc' = "Synthesizing"
       \/ /\ ~(pressed /\ q # <<>>)
          /\ pc' = "NoQuestion"
    /\ UNCHANGED <<files, k, conn, schema, df, raw, sql, errors, chart, excel,
                   summary, calls, exc, rejected, narrated, log>>

\* Lines 113-114 and 83-85: the external model answers, ask_ai returns.
AskAiReturns(response) ==
    /\ pc = "Synthesizing"
    /\ calls' = calls + 1
    /\ raw' = call_ai(response)
    /\ sql' = ask_ai(response)
    /\ log' = Append(log, "ask_ai")
    /\ pc' = "Synthesized"
    /\ UNCHANGED <<files, k, conn, schema, df, question, run, errors, chart,
                   excel, summary, exc, rejected, narrated>>

\* ask_ai catching the failure of the call and returning the bare terminator.
AskAiFails_Swallowed ==
    /\ pc = "Synthesizing"
    /\ calls' = calls + 1
    /\ log' = log \o <<"ask_ai", "call_ai raised">>
    /\ sql' = Semi
    /\ pc' = "Synthesized"
    /\ UNCHANGED <<files, k, conn, schema, df, question, run, raw, errors,
                   chart, excel, summary, exc, rejected, narrated>>

\* Lines 113 and 53: the call to the external model raises; neither call_ai
\* nor ask_ai nor the script catches it.
AskAiFails ==
    /\ pc = "Synthesizing"
    /\ calls' = calls + 1
    /\ log' = log \o <<"ask_ai", "call_ai raised">>
    /\ exc' = "call_ai"
    /\ pc' = "Failed"
    /\ UNCHANGED <<files, k, conn, schema, df, question, run, raw, sql, errors,
                   chart, excel, summary, rejected, narrated>>

\* Lines 116-117: df = run_sql(sql).
RunSql ==
    /\ pc = "Synthesized"
    /\ LET r == run_sql(sql, conn)
       IN  /\ rejected' = ~read_sql_query(sql, conn).ok
           /\ errors' = errors \o r.shown
           /\ log' = Append(log, "run_sql")
           /\ \/ /\ r.raised
                 /\ exc' = "run_sql"
                 /\ pc' = "Failed"
                 /\ df' = df
              \/ /\ ~r.raised
                 /\ df' = r.frame
                 /\ pc' = IF IsEmpty(r.frame) THEN "EmptyResult" ELSE "ResultReady"
                 /\ exc' = exc
    /\ UNCHANGED <<files, k, conn, schema, question, run, raw, sql, chart,
                   excel, summary, calls, narrated>>

\* Lines 120-152: the chart, or the notice that there is not enough data,
\* made from whatever df holds.
Chart ==
    /\ pc \in {"ResultReady", "EmptyResult", "NoQuestion"}
    /\ chart' = Visualization(df)
    /\ pc' = "Download"
    /\ UNCHANGED <<files, k, conn, schema, df, question, run, raw, sql, errors,
                   excel, summary, calls, exc, rejected, narrated, log>>

\* Lines 155-164: df is written to the Excel buffer.
Download ==
    /\ pc = "Download"
    /\ excel' = df
    /\ pc' = "Narrating"
    /\ UNCHANGED <<files, k, conn, schema, df, question, run, raw, sql, errors,
                   chart, summary, calls, exc, rejected, narrated, log>>

\* Lines 167-169: summary = explain(df), the model answering if it is asked.
Explain(response) ==
    /\ pc = "Narrating"
    /\ LET r == explain(df, response)
       IN  /\ summary' = r.text
           /\ calls' = calls + r.called
    /\ narrated' = Append(narrated, df)
    /\ log' = Append(log, "explain")
    /\ pc' = "Done"
    /\ UNCHANGED <<files, k, conn, schema, df, question, run, raw, sql, errors,
                   chart, excel, exc, rejected>>

\* Lines 168 and 53: explain calls the external model and the call raises.
ExplainFails ==
    /\ pc = "Narrating"
    /\ explain(df, <<>>).called > 0
    /\ calls' = calls + explain(df, <<>>).called
    /\ narrated' = Append(narrated, df)
    /\ log' = log \o <<"explain", "call_ai raised">>
    /\ exc' = "call_ai"
    /\ pc' = "Failed"
    /\ UNCHANGED <<files, k, conn, schema, df, question, run, raw, sql, errors,
                   chart, excel, summary, rejected>>

\* Streamlit runs the script again from the top on the next interaction:
\* every variable of the script starts afresh.
Rerun ==
    /\ pc \in {"Done", "Failed", "Stopped"}
    /\ pc' = "Idle"
    /\ files' = <<>>
    /\ k' = 1
    /\ conn' = EmptyStore
    /\ schema' = <<>>
    /\ df' = EmptyFrame
    /\ question' = <<>>
    /\ run' = FALSE
    /\ raw' = <<>>
    /\ sql' = <<>>
    /\ errors' = <<>>
    /\ chart' = "none"
    /\ excel' = EmptyFrame
    /\ summary' = <<>>
    /\ calls' = 0
    /\ exc' = "none"
    /\ rejected' = FALSE
    /\ narrated' = <<>>
    /\ log' = <<>>

Next ==
    \/ \E batch \in Batches : FileUpload(batch)
    \/ LoadFile
    \/ DataLoaded
    \/ \E q \in Questions, pressed \in BOOLEAN : AskQuestion(q, pressed)
    \/ \E response \in RawPool : AskAiReturns(response)
    \/ AskAiFails
    \/ RunSql
    \/ Chart
    \/ Download
    \/ \E response \in SummaryPool : Explain(response)
    \/ ExplainFails
    \/ Rerun

Spec == Init /\ [][Next]_vars

----------------------------------------------------------------------------
(* ask_ai on every bounded raw response *)

\* The pass after sales.csv was loaded and a question was submitted.
InitText ==
    /\ pc = "Synthesizing"
    /\ files = <<SalesCsv>>
    /\ k = 2
    /\ df = ReadFrame(SalesCsv)
    /\ conn = ToSql(EmptyStore, TableName(SalesCsv.name), df)
    /\ schema = SchemaLine(TableName(SalesCsv.name), df.columns)
    /\ question \in Questions \ {<<>>}
    /\ run = TRUE
    /\ raw = <<>>
    /\ sql = <<>>
    /\ errors = <<>>
    /\ chart = "none"
    /\ excel = EmptyFrame
    /\ summary = <<>>
    /\ calls = 0
    /\ exc = "none"
    /\ rejected = FALSE
    /\ narrated = <<>>
    /\ log = <<>>

NextText == \E response \in RawTexts : AskAiReturns(response)

SpecText == InitText /\ [][NextText]_vars

----------------------------------------------------------------------------
(* Definitions the properties are stated with *)

\* The lines of a text, each ended by a line break.
RECURSIVE Lines(_)
Lines(s) ==
    IF s = <<>> THEN <<>>
    ELSE LET first == SplitFirst(s, "\n")
         IN  <<first>> \o Lines(SubSeq(s, Len(first) + 2, Len(s)))

\* name(col1, col2, ...)
Entry(name, columns) ==
    name \o <<"(">> \o Join(columns, CommaSp) \o <<")">>

\* How many elements of sequence s equal x.
Count(s, x) == Cardinality({i \in 1..Len(s) : s[i] = x})

\* Whether text s contains text p.
Contains(s, p) ==
    \E i \in 1..(Len(s) - Len(p) + 1) : SubSeq(s, i, i + Len(p) - 1) = p

\* The files loaded so far in this pass.
Loaded == {i \in 1..Len(files) : i < k /\ files[i].ok}

\* The last loaded file that derives table name t.
LastFor(t) ==
    CHOOSE i \in Loaded :
        /\ TableName(files[i].name) = t
        /\ \A j \in Loaded : TableName(files[j].name) = t => j <= i

\* The load loop is over and the script went on.
AfterLoad ==
    pc \in {"SchemaReady", "Synthesizing", "Synthesized", "ResultReady",
            "EmptyResult", "NoQuestion", "Download", "Narrating", "Done"}

SalesName    == <<"s","a","l","e","s">>
LowerColumns == <<<<"d","a","t","e">>, <<"p","r","o","d","u","c","t">>, <<"q","u","a","n","t","i","t","y">>, <<"p","r","i","c","e">>>>
GivenColumns == <<<<"D","a","t","e">>, <<"P","r","o","d","u","c","t">>, <<"Q","u","a","n","t","i","t","y">>, <<"P","r","i","c","e">>>>

----------------------------------------------------------------------------
(* C1 *)

\* C1: whatever raw text the external model returns, ask_ai returns a text
\* that ends in ';' and holds exactly one ';'; no code-fence marker is left
\* in it; when the raw text holds no backquote, what precedes the ';' is the
\* raw text up to its first ';' (the whole raw text when it has none); and
\* the raw text ```sql SELECT 1; SELECT 2;``` gives exactly SELECT 1;
C1_OneStatement ==
    pc = "Synthesized" =>
        LET stmt == SubSeq(sql, 1, Len(sql) - 1)
        IN  /\ Len(sql) >= 1
            /\ sql[Len(sql)] = ";"
            /\ Count(sql, ";") = 1
            /\ ~Contains(sql, Fence)
            /\ Count(raw, Tick) = 0 =>
                   /\ Len(stmt) <= Len(raw)
                   /\ stmt = SubSeq(raw, 1, Len(stmt))
                   /\ Len(stmt) < Len(raw) => raw[Len(stmt) + 1] = ";"
            /\ raw = ExampleRaw => sql = ExampleSql

\* The example was answered, and so was a fenced text with two statements
\* beside it.
C1_Witness ==
    /\ pc = "Synthesized"
    /\ raw = ExampleRaw
    /\ sql = ExampleSql
    /\ Count(raw, ";") = 2
    /\ Contains(raw, FenceSql)

----------------------------------------------------------------------------
(* C2 *)

\* C2: when the store rejects the statement run_sql is given, run_sql returns
\* the frame with no row and no column, shows one non-empty message with
\* st.error and raises nothing; the pass goes on with that frame through the
\* chart section (which shows its notice), the export (of the empty frame)
\* and the narration (the fixed text), and ends Done, not Failed.
C2_RejectedStatement ==
    rejected =>
        /\ df = EmptyFrame
        /\ Len(errors) = 1
        /\ Len(errors[1]) > 0
        /\ exc = "none"
        /\ pc \in {"EmptyResult", "Download", "Narrating", "Done"}
        /\ pc \in {"Narrating", "Done"} => chart = "info" /\ excel = EmptyFrame
        /\ pc = "Done" =>
               /\ summary = NoDataText
               /\ narrated = <<EmptyFrame>>
               /\ log = <<"ask_ai", "run_sql", "explain">>

\* A pass whose statement names a table the store does not hold went through
\* to the end.
C2_Witness ==
    /\ rejected
    /\ pc = "Done"
    /\ sql = UnknownTable \o Semi
    /\ conn # EmptyStore

----------------------------------------------------------------------------
(* C3 *)

\* C3: explain, called with an empty frame, returns the fixed text and does
\* not call the external model; it calls the model exactly when the frame is
\* not empty. So once explain was called, the calls of the pass are the one
\* of ask_ai, if ask_ai was called, plus one if the narrated frame is not
\* empty.
C3_ExplainShortCut ==
    narrated # <<>> =>
        /\ calls = Count(log, "ask_ai")
                   + (IF IsEmpty(narrated[1]) THEN 0 ELSE 1)
        /\ IsEmpty(narrated[1]) => pc = "Done" /\ summary = NoDataText

\* explain was called with an empty frame after the external model had
\* answered ask_ai: the count stayed at one.
C3_Witness ==
    /\ pc = "Done"
    /\ narrated # <<>>
    /\ IsEmpty(narrated[1])
    /\ summary = NoDataText
    /\ calls = 1

----------------------------------------------------------------------------
(* C4 *)

\* C4: after the load loop the schema text has exactly one entry
\* name(col1, col2, ...) for each relation in the store, with the relation's
\* current columns, and no other entry.
C4_SchemaReflectsStore ==
    AfterLoad =>
        /\ Len(Lines(schema)) = Cardinality(DOMAIN conn)
        /\ \A t \in DOMAIN conn :
               Count(Lines(schema), Entry(t, conn[t].columns)) = 1

----------------------------------------------------------------------------
(* C5 *)

\* C5: the relation stored under a name is exactly the frame of the last
\* file loaded that derives this name: its columns and its rows, none of an
\* earlier file of the same name; and the store holds the derived names of
\* the loaded files, nothing else.
C5_ReplaceEntirely ==
    /\ DOMAIN conn = {TableName(files[i].name) : i \in Loaded}
    /\ \A t \in DOMAIN conn :
           /\ conn[t].rows = files[LastFor(t)].rows
           /\ conn[t].columns = NormalizeColumns(files[LastFor(t)].header)
           /\ conn[t].kinds = files[LastFor(t)].kinds

\* A file replaced the relation of an earlier file with other rows, while
\* the store holds a relation under another name too.
C5_Witness ==
    /\ pc = "SchemaReady"
    /\ Cardinality(DOMAIN conn) >= 2
    /\ \E i, j \in Loaded :
           /\ i < j
           /\ TableName(files[i].name) = TableName(files[j].name)
           /\ files[i].rows # files[j].rows
           /\ files[i].rows # <<>>
           /\ \E h \in Loaded : h < j /\ TableName(files[h].name) # TableName(files[j].name)

----------------------------------------------------------------------------
(* C6 *)

\* The file name without its final .csv, in whatever letter case.
WithoutExtension(name) ==
    IF Len(name) >= 4 /\ Lower(SubSeq(name, Len(name) - 3, Len(name))) = DotCsv
    THEN SubSeq(name, 1, Len(name) - 4)
    ELSE name

\* C6: the table name derived from a file name is the name without its
\* extension, lower-cased, spaces replaced by underscores; it holds no
\* upper-case letter, no space and no extension.
C6_DerivedName ==
    \A i \in Loaded :
        LET expected ==
                Replace(Lower(WithoutExtension(files[i].name)), <<" ">>, <<"_">>)
        IN  /\ expected \in DOMAIN conn
            /\ \A t \in DOMAIN conn :
                   /\ ~Contains(t, DotCsv)
                   /\ \A c \in 1..Len(t) :
                          t[c] # " " /\ ~(\E u \in 1..26 : UpperCase[u] = t[c])

----------------------------------------------------------------------------
(* C7 *)

\* C7: a file of the batch that cannot be read does not end the pass: when
\* the load loop is left, every readable file of the batch is in the store
\* and in the schema text, and the pass goes on to the question.
C7_BadFileSkipped ==
    (files # <<>> /\ pc # "Loading" /\ pc # "Idle") =>
        /\ exc # "read_csv"
        /\ \A i \in 1..Len(files) :
               files[i].ok =>
                   /\ TableName(files[i].name) \in DOMAIN conn
                   /\ \E n \in 1..Len(Lines(schema)) :
                          Lines(schema)[n] =
                              Entry(TableName(files[i].name),
                                    NormalizeColumns(files[i].header))

----------------------------------------------------------------------------
(* C8 *)

\* C8: when the call to the external model raises, the pass ends Failed with
\* that exception and nothing is called after it; raised in ask_ai, no
\* statement was returned, run_sql was not called and the model was called
\* once; raised in explain, no summary was set. A statement or a summary is
\* there only when no call raised.
C8_FailurePropagates ==
    /\ Count(log, "call_ai raised") > 0 =>
           /\ pc = "Failed"
           /\ exc = "call_ai"
           /\ log[Len(log)] = "call_ai raised"
           /\ Count(log, "call_ai raised") = 1
           /\ summary = <<>>
           /\ log[Len(log) - 1] = "ask_ai" =>
                  /\ sql = <<>>
                  /\ calls = 1
                  /\ Count(log, "run_sql") = 0
                  /\ Count(log, "ask_ai") = 1
           /\ log[Len(log) - 1] = "explain" =>
                  calls = Count(log, "ask_ai") + 1
    /\ sql # <<>> =>
           /\ Count(log, "ask_ai") = 1
           /\ ~(Len(log) >= 2 /\ log[2] = "call_ai raised")
    /\ summary # <<>> => exc = "none" /\ pc = "Done"

\* The call raised in ask_ai, after the files were loaded and a question
\* was submitted.
C8_Witness ==
    /\ pc = "Failed"
    /\ log = <<"ask_ai", "call_ai raised">>
    /\ sql = <<>>
    /\ calls = 1

----------------------------------------------------------------------------
(* C9 *)

\* sales.csv was loaded, and no file loaded after it derives the name sales.
SalesLoaded ==
    /\ SalesName \in DOMAIN conn
    /\ \E i \in Loaded : files[i] = SalesCsv /\ LastFor(SalesName) = i

\* C9 as claimed: the relation sales has the columns date, product, quantity,
\* price, and the schema text has the entry sales(date, product, quantity,
\* price).
C9_LowerCaseColumns ==
    SalesLoaded =>
        /\ conn[SalesName].columns = LowerColumns
        /\ Count(Lines(schema), Entry(SalesName, LowerColumns)) >= 1

\* C9 as amended: uploading sales.csv with the header Date, Product,
\* Quantity, Price registers the relation sales with the columns Date,
\* Product, Quantity, Price (stripped, letter case kept), and the schema text
\* has the entry sales(Date, Product, Quantity, Price).
C9_ColumnsKeepCase ==
    SalesLoaded =>
        /\ conn[SalesName].columns = GivenColumns
        /\ Count(Lines(schema), Entry(SalesName, GivenColumns)) >= 1

\* sales.csv alone was uploaded and loaded.
C9_Witness ==
    /\ files = <<SalesCsv>>
    /\ pc = "SchemaReady"
    /\ SalesLoaded
    /\ Lines(schema) = <<Entry(SalesName, GivenColumns)>>

----------------------------------------------------------------------------
(* C10 *)

\* A question was submitted in this pass.
Submitted == run /\ question # <<>>

\* C10: explain is called only after ask_ai and run_sql were called in the
\* same pass, each once and in this order, with the frame run_sql returned;
\* in a pass where no question is submitted explain is not called and the
\* external model is not called.
C10_StageOrder ==
    /\ narrated # <<>> =>
           /\ Len(narrated) = 1
           /\ log = <<"ask_ai", "run_sql", "explain">>
                  \/ log = <<"ask_ai", "run_sql", "explain", "call_ai raised">>
           /\ narrated[1] = run_sql(sql, conn).frame
    /\ (AfterLoad /\ pc # "SchemaReady" /\ ~Submitted) =>
           /\ narrated = <<>>
           /\ calls = 0

====
